---- MODULE Spec2Model ----
(***************************************************************************)
(* A model of tools/tdd.js: the development server's startup sequence,     *)
(* the one-shot compilation promises, the request gate (appPromise), the   *)
(* hot-update loop (checkForUpdate) and the idempotent cleanup.            *)
(*                                                                         *)
(* One action is one macrotask of the Node event loop together with every  *)
(* microtask it queues: a compiler hook with the taps registered on it, a  *)
(* settled await with the synchronous code that follows it, the settling   *)
(* of hot.check() with its .then/.catch chain.                             *)
(***************************************************************************)
EXTENDS Naturals, Sequences, FiniteSets

\* ---------------------------------------------------------------- bounds
MaxBuild == 3        \* server compiler runs (the initial one included)
MaxReq == 2          \* inbound requests
MaxSignals == 2      \* termination signals

VARIABLES
  noDocker,             \* start() parameter
  runDatabase,          \* start() parameter
  hotEnabled,           \* whether the built server module exports module.hot
  pc,                   \* where start()'s async body is suspended
  begun,                \* startup steps that have begun (history)
  failed,               \* the startup step whose failure was thrown first (history)
  cleaning,             \* let cleaning: "null" | "running" | "done"
  teardownCalls,        \* invocations of dockerTeardown (history)
  outerResolves,        \* invocations of outerResolve (history)
  triggers,             \* invocations of cleanupAndExit (history)
  network,              \* the docker network: "none" | "up" | "down"
  db,                   \* the database container: "none" | "up" | "down"
  clientCompiling,      \* the client compiler is between compile and done
  clientPromise,        \* "none" | "pending" | "resolved" | "rejected"
  serverCompiling,      \* the server compiler is between compile and done
  started,              \* server compiler runs started
  finished,             \* server compiler runs ended (any outcome)
  built,                \* version of build/server on disk (error-free runs)
  serverPromise,        \* "none" | "pending" | "resolved" | "rejected"
  builtSinceArm,        \* a server compiler run has ended without errors since
                        \* the current appPromise was created (history)
  appPromise,           \* index in gates of the current appPromise, 0: undefined
  appPromiseIsResolved, \* let appPromiseIsResolved
  gates,                \* every appPromise created: whether it is resolved
  armedBy,              \* the server compiler run that created appPromise (history)
  ready,                \* the server compiler runs ended when the gate was last
                        \* released (history)
  releases,             \* calls of appPromiseResolve (history)
  app,                  \* let app: [loaded, ver]
  hotStatus,            \* app.hot.status() of the live module
  chk,                  \* the hot.check(true) promises pending, each "top" | "nested"
  drain,                \* what checkForUpdate did since the watch callback last
                        \* called hot.check: its handlers' branches, and "noop"
                        \* for a call that returned at the status guard (history)
  uncaught,             \* checkForUpdate threw out of the watch callback
  serving,              \* browserSync is listening
  waiting,              \* the gate each suspended request waits on, in order
                        \* of arrival
  handled               \* requests dispatched, counted by how many versions the
                        \* module that handled them was behind build/server

vars == << noDocker, runDatabase, hotEnabled, pc, begun, failed, cleaning,
           teardownCalls, outerResolves, triggers, network, db,
           clientCompiling, clientPromise, serverCompiling,
           started, finished, built, serverPromise, builtSinceArm, appPromise,
           appPromiseIsResolved, gates, armedBy, ready, releases, app,
           hotStatus, chk, drain, uncaught, serving, waiting, handled >>

reqVars == << waiting, handled >>
lifeVars == << cleaning, teardownCalls, outerResolves, triggers >>
resVars == << network, db >>
clientVars == << clientCompiling, clientPromise >>
serverVars == << serverCompiling, started, finished, built, serverPromise,
                builtSinceArm >>
gateVars == << appPromise, appPromiseIsResolved, gates, armedBy, ready,
              releases >>
hmrVars == << app, hotStatus, chk, drain, uncaught >>
cfgVars == << noDocker, runDatabase, hotEnabled >>

\* The startup order of start()'s try block.
StepOrder == << "network", "database", "clean", "compilers", "compile", "load", "edge" >>
Steps == { StepOrder[i] : i \in 1..Len(StepOrder) }
StepNumber == [ s \in Steps |-> CHOOSE i \in 1..Len(StepOrder) : StepOrder[i] = s ]
StepIndex(s) == StepNumber[s]

Settled == { "resolved", "rejected" }

\* An await of start() whose promise has settled resumes in a microtask,
\* before the event loop delivers any further event.
MicrotaskReady ==
  \/ pc = "awaitClient" /\ clientPromise \in Settled
  \/ pc = "awaitServer" /\ serverPromise \in Settled

\* ------------------------------------------------------------- cleanup
\* cleanupAndExit with no guard on cleaning: every call tears down again.
CleanupAndExitUnguarded ==
  /\ triggers' = triggers + 1
  /\ cleaning' = IF cleaning = "done" THEN "done" ELSE "running"
  /\ teardownCalls' = teardownCalls + 1
  /\ UNCHANGED outerResolves

\* cleanupAndExit(): the first call starts the cleanup, which runs up to
\* `await dockerTeardown()`; every call returns the same promise.
CleanupAndExit ==
  /\ triggers' = triggers + 1
  /\ IF cleaning = "null"
       THEN /\ cleaning' = "running"
            /\ teardownCalls' = teardownCalls + 1
       ELSE UNCHANGED << cleaning, teardownCalls >>
  /\ UNCHANGED outerResolves

\* onKillSignal(cleanupAndExit): a termination signal is delivered.
KillSignal ==
  /\ ~MicrotaskReady
  /\ triggers < MaxSignals
  /\ CleanupAndExit
  /\ UNCHANGED << cfgVars, pc, begun, failed, resVars, clientVars, serverVars,
                  gateVars, hmrVars, serving, reqVars >>

\* dockerTeardown() returns: whatever is up is taken down, the cleanup logs
\* and calls outerResolve(); a start() suspended in its catch block resumes
\* and its body ends.
TeardownDone ==
  /\ ~MicrotaskReady
  /\ cleaning = "running"
  /\ cleaning' = "done"
  /\ outerResolves' = outerResolves + 1
  /\ network' = IF network = "up" THEN "down" ELSE network
  /\ db' = IF db = "up" THEN "down" ELSE db
  /\ pc' = IF pc = "caught" THEN "exited" ELSE pc
  /\ UNCHANGED << cfgVars, begun, failed, teardownCalls, triggers,
                  clientVars, serverVars, gateVars, hmrVars, serving, reqVars >>

\* A catch block that calls cleanupAndExit() without awaiting it: start()'s
\* body ends at once.
CatchNoAwait(step) ==
  /\ failed' = IF failed = "none" THEN step ELSE failed
  /\ CleanupAndExit
  /\ pc' = "exited"

\* The catch block of start(): log, then `await cleanupAndExit()`.
Catch(step) ==
  /\ failed' = IF failed = "none" THEN step ELSE failed
  /\ CleanupAndExit
  /\ pc' = IF cleaning = "done" THEN "exited" ELSE "caught"

\* --------------------------------------------------------------- startup
\* `await run(clean, false)` begins (lines 100-125 are synchronous).
BeginClean ==
  /\ pc' = "clean"
  /\ begun' = begun \cup { "clean" }

\* A start() without the database block: clean follows the network step.
AfterNetworkSkipDatabase == BeginClean

\* What follows the network step: the database step when enabled.
AfterNetwork ==
  IF runDatabase
    THEN /\ pc' = "ensureDir"
         /\ begun' = begun \cup { "database" }
    ELSE BeginClean

\* dockerNetworkCreate's failure caught on the spot and startup continued.
NetworkDoneSwallowed(ok) ==
  /\ pc = "network"
  /\ network' = IF ok THEN "up" ELSE network
  /\ failed' = IF ok THEN failed ELSE "network"
  /\ AfterNetwork
  /\ UNCHANGED lifeVars
  /\ UNCHANGED << cfgVars, db, clientVars, serverVars, gateVars,
                  hmrVars, serving, reqVars >>

\* `await dockerNetworkCreate(network)` settles.
NetworkDone(ok) ==
  /\ pc = "network"
  /\ IF ok
       THEN /\ network' = "up"
            /\ AfterNetwork
            /\ UNCHANGED << failed, lifeVars >>
       ELSE /\ Catch("network")
            /\ UNCHANGED << begun, network >>
  /\ UNCHANGED << cfgVars, db, clientVars, serverVars, gateVars,
                  hmrVars, serving, reqVars >>

\* `await fs.ensureDir('./db/data-tdd')` settles; runDbContainer is called.
EnsureDirDone(ok) ==
  /\ pc = "ensureDir"
  /\ IF ok
       THEN /\ pc' = "db"
            /\ UNCHANGED << failed, lifeVars >>
       ELSE Catch("database")
  /\ UNCHANGED << cfgVars, begun, resVars, clientVars, serverVars,
                  gateVars, hmrVars, serving, reqVars >>

\* `await runDbContainer(...)` settles.
DbDone(ok) ==
  /\ pc = "db"
  /\ IF ok
       THEN /\ db' = "up"
            /\ BeginClean
            /\ UNCHANGED << failed, lifeVars >>
       ELSE /\ Catch("database")
            /\ UNCHANGED << begun, db >>
  /\ UNCHANGED << cfgVars, network, clientVars, serverVars, gateVars,
                  hmrVars, serving, reqVars >>

\* `await run(clean, false)` settles; on success lines 126-205 run: the
\* compilers are instantiated, both compilation promises are created, the
\* hooks are tapped, both compilers start watching, and start() suspends at
\* `await clientPromise`.
CleanDone(ok) ==
  /\ pc = "clean"
  /\ IF ok
       THEN /\ pc' = "awaitClient"
            /\ begun' = begun \cup { "compilers", "compile" }
            /\ clientPromise' = "pending"
            /\ serverPromise' = "pending"
            /\ UNCHANGED << failed, lifeVars >>
       ELSE /\ Catch("clean")
            /\ UNCHANGED << begun, clientPromise, serverPromise >>
  /\ UNCHANGED << cfgVars, resVars, clientCompiling,
                  serverCompiling, started, finished, built, builtSinceArm,
                  gateVars, hmrVars, serving, reqVars >>

\* ---------------------------------------------------------- request gate
\* app.handle(req, res) is called for n requests with a module of version
\* ver, build/server being at version b.
Dispatch(n, ver, b) == [ handled EXCEPT ![b - ver] = @ + n ]

\* The requests waiting on gate g.
WaitingOn(g) == SelectSeq(waiting, LAMBDA w : w = g)

\* A release that sets appPromiseIsResolved and does not call
\* appPromiseResolve: the promise stays unresolved.
ReleaseFlagOnly(ver, b, f) ==
  /\ appPromiseIsResolved' = TRUE
  /\ ready' = f
  /\ UNCHANGED << releases, gates, waiting, handled, appPromise, armedBy >>

\* appPromiseIsResolved = true; appPromiseResolve(): the current gate is
\* resolved and the .then of every request waiting on it runs
\* app.handle(req, res) with the module that is live then (version ver,
\* build/server being at version b and f compiler runs having ended).
Release(ver, b, f) ==
  /\ appPromiseIsResolved' = TRUE
  /\ ready' = f
  /\ releases' = releases + 1
  /\ gates' = [ gates EXCEPT ![appPromise] = TRUE ]
  /\ waiting' = SelectSeq(waiting, LAMBDA w : w # appPromise)
  /\ handled' = Dispatch(Len(WaitingOn(appPromise)), ver, b)
  /\ UNCHANGED << appPromise, armedBy >>

\* A compile tap without the early return: every compile start creates a
\* new appPromise.
RearmAlways ==
  /\ appPromiseIsResolved' = FALSE
  /\ gates' = Append(gates, FALSE)
  /\ appPromise' = Len(gates) + 1
  /\ armedBy' = started + 1
  /\ UNCHANGED << ready, releases >>

\* serverCompiler.hooks.compile.tap('server', ...): a new unresolved
\* appPromise unless the current one is still unresolved.
Rearm ==
  IF ~appPromiseIsResolved
    THEN UNCHANGED gateVars
    ELSE /\ appPromiseIsResolved' = FALSE
         /\ gates' = Append(gates, FALSE)
         /\ appPromise' = Len(gates) + 1
         /\ armedBy' = started + 1
         /\ UNCHANGED << ready, releases >>

\* f[0] + ... + f[n].
RECURSIVE Sum(_, _)
Sum(f, n) == IF n = 0 THEN f[0] ELSE f[n] + Sum(f, n - 1)

\* server.use((req, res) => appPromise.then(() => app.handle(req, res))):
\* a request arrives; it is handled at once when the current appPromise is
\* resolved and waits on it otherwise.
Request ==
  /\ ~MicrotaskReady
  /\ serving
  /\ appPromise > 0
  /\ Len(waiting) + Sum(handled, MaxBuild) < MaxReq
  /\ IF gates[appPromise]
       THEN /\ handled' = Dispatch(1, app.ver, built)
            /\ UNCHANGED waiting
       ELSE /\ waiting' = Append(waiting, appPromise)
            /\ UNCHANGED handled
  /\ UNCHANGED << cfgVars, pc, begun, failed, lifeVars, resVars,
                  clientVars, serverVars, gateVars, hmrVars, serving >>

\* ------------------------------------------------------------- compilers
\* The client compiler's compile hook (createCompilationPromise resets its
\* timer).
ClientStart ==
  /\ ~MicrotaskReady
  /\ clientPromise # "none"
  /\ ~clientCompiling
  /\ clientCompiling' = TRUE
  /\ UNCHANGED << cfgVars, pc, begun, failed, lifeVars, resVars,
                  clientPromise, serverVars, gateVars, hmrVars, serving, reqVars >>

\* A promise that every done hook settles anew: the last outcome wins.
SettleLast(promise, hasErrors) ==
  IF hasErrors THEN "rejected" ELSE "resolved"

\* A compilation promise after its compiler's done hook: resolve(stats) or
\* reject(...) on a promise that is already settled does nothing.
Settle(promise, hasErrors) ==
  IF promise = "pending"
    THEN IF hasErrors THEN "rejected" ELSE "resolved"
    ELSE promise

\* The first failing initial compile, for the record of failed steps.
CompileFailure(promise, hasErrors) ==
  IF promise = "pending" /\ hasErrors /\ failed = "none" THEN "compile" ELSE failed

\* The client compiler's done hook.
ClientDone(hasErrors) ==
  /\ ~MicrotaskReady
  /\ clientCompiling
  /\ clientCompiling' = FALSE
  /\ clientPromise' = Settle(clientPromise, hasErrors)
  /\ failed' = CompileFailure(clientPromise, hasErrors)
  /\ UNCHANGED << cfgVars, pc, begun, lifeVars, resVars,
                  serverVars, gateVars, hmrVars, serving, reqVars >>

\* The server compiler's compile hook: the timer tap, then the rearm tap.
ServerStart ==
  /\ ~MicrotaskReady
  /\ serverPromise # "none"
  /\ ~serverCompiling
  /\ started < MaxBuild
  /\ serverCompiling' = TRUE
  /\ started' = started + 1
  /\ Rearm
  /\ builtSinceArm' = IF appPromise' # appPromise THEN FALSE ELSE builtSinceArm
  /\ UNCHANGED << cfgVars, pc, begun, failed, lifeVars, resVars,
                  clientVars, finished, built, serverPromise, hmrVars,
                  serving, reqVars >>

\* ------------------------------------------------------------ hot updates
\* The statuses with which hot.check(true) can reject that are neither
\* 'abort' nor 'fail'.
SoftStatuses == { "idle", "check", "apply" }

\* The pending checks without the i-th.
Without(pending, i) ==
  [ j \in 1..(Len(pending) - 1) |-> IF j < i THEN pending[j] ELSE pending[j + 1] ]

\* checkForUpdate with no status guard: hot.check(true) is always called.
CheckForUpdateNoStatusGuard(pending, kind, status) ==
  /\ hotStatus' = "check"
  /\ chk' = Append(pending, kind)

\* checkForUpdate(fromUpdate) on a module that has app.hot, whose status is
\* `status`: Promise.resolve() unless the status is 'idle'; otherwise
\* app.hot.check(true) is called and its promise is pending.
CheckForUpdate(pending, kind, status) ==
  IF status # "idle"
    THEN /\ hotStatus' = status
         /\ chk' = pending
    ELSE /\ hotStatus' = "check"
         /\ chk' = Append(pending, kind)

\* The watch callback's body once `app && !error && !stats.hasErrors()`:
\* checkForUpdate() throws when app.hot is absent (nothing of the callback
\* runs after it); else the gate is released when the returned promise
\* resolves, which is at once when no check was started.
WatchCallback(b, f) ==
  IF ~hotEnabled
    THEN /\ uncaught' = TRUE
         /\ UNCHANGED << app, hotStatus, chk, drain, gateVars, reqVars >>
    ELSE /\ CheckForUpdate(chk, "top", hotStatus)
         /\ UNCHANGED << app, uncaught >>
         /\ IF chk' = chk
              THEN /\ Release(app.ver, b, f)
                   /\ drain' = Append(drain, "noop")
              ELSE /\ drain' = << >>
                   /\ UNCHANGED << gateVars, reqVars >>

\* A watch callback without the `app &&` condition: an error-free run
\* releases the gate also while no module is loaded.
ServerDoneNoAppGuard(hasErrors) ==
  /\ ~MicrotaskReady
  /\ serverCompiling
  /\ serverCompiling' = FALSE
  /\ finished' = finished + 1
  /\ built' = IF hasErrors THEN built ELSE built + 1
  /\ builtSinceArm' = IF hasErrors THEN builtSinceArm ELSE TRUE
  /\ serverPromise' = Settle(serverPromise, hasErrors)
  /\ failed' = CompileFailure(serverPromise, hasErrors)
  /\ IF hasErrors
       THEN UNCHANGED << hmrVars, gateVars, reqVars >>
       ELSE IF app.loaded
              THEN WatchCallback(built', finished')
              ELSE /\ Release(app.ver, built', finished')
                   /\ UNCHANGED hmrVars
  /\ UNCHANGED << cfgVars, pc, begun, lifeVars, resVars, clientVars,
                  started, serving >>

\* The server compiler's done hook (the compilation promise's tap), then the
\* watch callback with the same stats.
ServerDone(hasErrors) ==
  /\ ~MicrotaskReady
  /\ serverCompiling
  /\ serverCompiling' = FALSE
  /\ finished' = finished + 1
  /\ built' = IF hasErrors THEN built ELSE built + 1
  /\ builtSinceArm' = IF hasErrors THEN builtSinceArm ELSE TRUE
  /\ serverPromise' = Settle(serverPromise, hasErrors)
  /\ failed' = CompileFailure(serverPromise, hasErrors)
  /\ IF app.loaded /\ ~hasErrors
       THEN WatchCallback(built', finished')
       ELSE UNCHANGED << hmrVars, gateVars, reqVars >>
  /\ UNCHANGED << cfgVars, pc, begun, lifeVars, resVars, clientVars,
                  started, serving >>

\* The watch callback called with an error: no done hook, and the callback
\* does nothing.
ServerFatal ==
  /\ ~MicrotaskReady
  /\ serverCompiling
  /\ serverCompiling' = FALSE
  /\ finished' = finished + 1
  /\ UNCHANGED << cfgVars, pc, begun, failed, lifeVars, resVars,
                  clientVars, started, built, serverPromise, builtSinceArm,
                  gateVars, hmrVars, serving, reqVars >>

\* The patch engine moves a pending check on to applying the update.
HotApplying ==
  /\ ~MicrotaskReady
  /\ chk # << >>
  /\ hotStatus = "check"
  /\ hotStatus' = "apply"
  /\ UNCHANGED << cfgVars, pc, begun, failed, lifeVars, resVars,
                  clientVars, serverVars, gateVars, app, chk, drain,
                  uncaught, serving, reqVars >>

\* .catch(error => ...) of checkForUpdate, the engine's status being
\* `status`: on 'abort' or 'fail' the cached module is deleted and
\* build/server is required afresh (a new module, whose engine is idle);
\* otherwise a warning is logged and nothing changes.
OnCheckFailure(pending, status) ==
  IF status \in { "abort", "fail" }
    THEN /\ app' = [ loaded |-> TRUE, ver |-> built ]
         /\ hotStatus' = "idle"
         /\ chk' = pending
         /\ drain' = Append(drain, "reloaded")
    ELSE /\ hotStatus' = status
         /\ chk' = pending
         /\ drain' = Append(drain, "failed")
         /\ UNCHANGED app

\* What .then logs for a result: "Update applied." for null when called
\* from an update and nothing otherwise ("quiet"), "Nothing hot updated."
\* for an empty list, "Updated modules:" for the others.
ResultLog(kind, result) ==
  IF result = "none"
    THEN IF kind = "nested" THEN "applied" ELSE "quiet"
    ELSE IF result = "empty" THEN "nothing" ELSE "updated"

\* A .then that calls checkForUpdate(true) after every applied update, an
\* empty one included.
OnCheckResultDrainAlways(pending, kind, result) ==
  /\ app' = [ app EXCEPT !.ver = IF result = "none" THEN @ ELSE @ + 1 ]
  /\ drain' = Append(drain, ResultLog(kind, result))
  /\ IF result # "none"
       THEN CheckForUpdate(pending, "nested", "idle")
       ELSE /\ hotStatus' = "idle"
            /\ chk' = pending

\* .then(updatedModules => ...) of checkForUpdate: the engine is idle again;
\* "none" is a null result (no update found), "empty" an applied update
\* that changed no module, "updated" one that changed some, after which
\* checkForUpdate(true) is called and its promise dropped.
OnCheckResult(pending, kind, result) ==
  /\ app' = [ app EXCEPT !.ver = IF result = "none" THEN @ ELSE @ + 1 ]
  /\ drain' = Append(drain, ResultLog(kind, result))
  /\ IF result = "updated"
       THEN CheckForUpdate(pending, "nested", "idle")
       ELSE /\ hotStatus' = "idle"
            /\ chk' = pending

\* The i-th pending hot.check(true) settles, with a result or with the
\* status it rejects in; the handlers of checkForUpdate run and, for the
\* check the watch callback waits on, the gate is released. An update is
\* there to be applied (or to fail in the applying) only when build/server
\* is ahead of the live module.
CheckDone(i, outcome) ==
  /\ ~MicrotaskReady
  /\ i \in DOMAIN chk
  /\ \/ /\ outcome = "none"
        /\ app.ver = built
        /\ OnCheckResult(Without(chk, i), chk[i], outcome)
     \/ /\ outcome \in { "empty", "updated" }
        /\ app.ver < built
        /\ OnCheckResult(Without(chk, i), chk[i], outcome)
     \/ /\ outcome \in { "abort", "fail" }
        /\ app.ver < built
        /\ OnCheckFailure(Without(chk, i), outcome)
     \/ /\ outcome \in SoftStatuses
        /\ OnCheckFailure(Without(chk, i), outcome)
  /\ IF chk[i] = "top"
       THEN Release(app'.ver, built, finished)
       ELSE UNCHANGED << gateVars, reqVars >>
  /\ UNCHANGED << cfgVars, pc, begun, failed, lifeVars, resVars,
                  clientVars, serverVars, uncaught, serving >>

CheckOutcomes == { "none", "empty", "updated", "abort", "fail" } \cup SoftStatuses

\* ------------------------------------------------- startup, second half
\* `await clientPromise` that resumes whatever the promise settled to.
AwaitClientIgnoringFailure ==
  /\ pc = "awaitClient"
  /\ clientPromise \in Settled
  /\ pc' = "awaitServer"
  /\ UNCHANGED << failed, lifeVars >>
  /\ UNCHANGED << cfgVars, begun, resVars, clientVars, serverVars,
                  gateVars, hmrVars, serving, reqVars >>

\* `await clientPromise` resumes: on to `await serverPromise`, or into the
\* catch block when the promise is rejected.
AwaitClient ==
  /\ pc = "awaitClient"
  /\ clientPromise \in Settled
  /\ IF clientPromise = "resolved"
       THEN /\ pc' = "awaitServer"
            /\ UNCHANGED << failed, lifeVars >>
       ELSE Catch("compile")
  /\ UNCHANGED << cfgVars, begun, resVars, clientVars, serverVars,
                  gateVars, hmrVars, serving, reqVars >>

\* Lines 211-222: app = require('../build/server').default, the gate is
\* released, and browserSync's init is called.
LoadAndLaunch ==
  /\ app' = [ loaded |-> TRUE, ver |-> built ]
  /\ hotStatus' = "idle"
  /\ Release(built, built, finished)
  /\ begun' = begun \cup { "load", "edge" }
  /\ pc' = "bsInit"
  /\ UNCHANGED << failed, lifeVars, chk, drain, uncaught >>

\* `await serverPromise` resumes.
AwaitServer ==
  /\ pc = "awaitServer"
  /\ serverPromise \in Settled
  /\ IF serverPromise = "resolved"
       THEN LoadAndLaunch
       ELSE /\ Catch("compile")
            /\ UNCHANGED << begun, gateVars, hmrVars, reqVars >>
  /\ UNCHANGED << cfgVars, resVars, clientVars, serverVars, serving >>

\* A start() that calls outerResolve() once the server is launched.
BsInitDoneResolving(ok) ==
  /\ ~MicrotaskReady
  /\ pc = "bsInit"
  /\ IF ok
       THEN /\ pc' = "launched"
            /\ serving' = TRUE
            /\ outerResolves' = outerResolves + 1
            /\ UNCHANGED << failed, cleaning, teardownCalls, triggers >>
       ELSE /\ Catch("edge")
            /\ UNCHANGED serving
  /\ UNCHANGED << cfgVars, begun, resVars, clientVars, serverVars,
                  gateVars, hmrVars, reqVars >>

\* browserSync's init callback: the edge server is up, or init failed.
BsInitDone(ok) ==
  /\ ~MicrotaskReady
  /\ pc = "bsInit"
  /\ IF ok
       THEN /\ pc' = "launched"
            /\ serving' = TRUE
            /\ UNCHANGED << failed, lifeVars >>
       ELSE /\ Catch("edge")
            /\ UNCHANGED serving
  /\ UNCHANGED << cfgVars, begun, resVars, clientVars, serverVars,
                  gateVars, hmrVars, reqVars >>

\* ------------------------------------------------------- specification
\* The state when start()'s promise executor first suspends: the kill-signal
\* handler is registered and the first enabled step has been called.
Init ==
  /\ noDocker \in BOOLEAN
  /\ runDatabase \in BOOLEAN
  /\ hotEnabled \in BOOLEAN
  /\ pc = IF ~noDocker THEN "network" ELSE IF runDatabase THEN "ensureDir" ELSE "clean"
  /\ begun = IF ~noDocker THEN { "network" }
             ELSE IF runDatabase THEN { "database" } ELSE { "clean" }
  /\ failed = "none"
  /\ cleaning = "null"
  /\ teardownCalls = 0
  /\ outerResolves = 0
  /\ triggers = 0
  /\ network = "none"
  /\ db = "none"
  /\ clientCompiling = FALSE
  /\ clientPromise = "none"
  /\ serverCompiling = FALSE
  /\ started = 0
  /\ finished = 0
  /\ built = 0
  /\ serverPromise = "none"
  /\ builtSinceArm = FALSE
  /\ appPromise = 0
  /\ appPromiseIsResolved = TRUE
  /\ gates = << >>
  /\ armedBy = 0
  /\ ready = 0
  /\ releases = 0
  /\ app = [ loaded |-> FALSE, ver |-> 0 ]
  /\ hotStatus = "idle"
  /\ chk = << >>
  /\ drain = << >>
  /\ uncaught = FALSE
  /\ serving = FALSE
  /\ waiting = << >>
  /\ handled = [ lag \in 0..MaxBuild |-> 0 ]

Next ==
  \/ KillSignal
  \/ TeardownDone
  \/ \E ok \in BOOLEAN : NetworkDone(ok)
  \/ \E ok \in BOOLEAN : EnsureDirDone(ok)
  \/ \E ok \in BOOLEAN : DbDone(ok)
  \/ \E ok \in BOOLEAN : CleanDone(ok)
  \/ ClientStart
  \/ \E hasErrors \in BOOLEAN : ClientDone(hasErrors)
  \/ ServerStart
  \/ \E hasErrors \in BOOLEAN : ServerDone(hasErrors)
  \/ ServerFatal
  \/ AwaitClient
  \/ AwaitServer
  \/ \E ok \in BOOLEAN : BsInitDone(ok)
  \/ Request
  \/ HotApplying
  \/ \E i \in 1..2, outcome \in CheckOutcomes : CheckDone(i, outcome)

Spec == Init /\ [][Next]_vars

\* What the event loop and the libraries do when left to run: a compiler
\* run ends, hot.check(true) settles, an awaited startup step settles and
\* start() resumes, dockerTeardown() returns.  Termination signals, file
\* changes (compile starts) and requests are up to the environment.
ServerRunEnds == (\E hasErrors \in BOOLEAN : ServerDone(hasErrors)) \/ ServerFatal
ClientRunEnds == \E hasErrors \in BOOLEAN : ClientDone(hasErrors)
CheckSettles == \E i \in 1..2, outcome \in CheckOutcomes : CheckDone(i, outcome)
StartupAdvances ==
  \/ \E ok \in BOOLEAN : NetworkDone(ok)
  \/ \E ok \in BOOLEAN : EnsureDirDone(ok)
  \/ \E ok \in BOOLEAN : DbDone(ok)
  \/ \E ok \in BOOLEAN : CleanDone(ok)
  \/ AwaitClient
  \/ AwaitServer
  \/ \E ok \in BOOLEAN : BsInitDone(ok)

FairSpec ==
  /\ Spec
  /\ WF_vars(ServerRunEnds)
  /\ WF_vars(ClientRunEnds)
  /\ WF_vars(CheckSettles)
  /\ WF_vars(StartupAdvances)
  /\ WF_vars(TeardownDone)

\* ================================================================ claims
Last(seq) == seq[Len(seq)]

\* ServerStart has armed a gate that is not yet released.
GateArmed == ~appPromiseIsResolved

\* A server rebuild is outstanding: a run has started that had not ended
\* when the gate was last released.
RebuildOutstanding == started > ready

\* C1: in every reachable state the gate is armed iff a server rebuild is
\* outstanding, and the current gate is resolved only once the run that
\* armed it has ended.
C1_ArmedIffOutstanding ==
  /\ GateArmed <=> RebuildOutstanding
  /\ (appPromise > 0 /\ gates[appPromise]) => finished >= armedBy

\* C2: every request that has been dispatched was handled by a module at
\* least as recent as the last server rebuild completed at that moment (as
\* long as checkForUpdate has not thrown, which C7 is about).
C2_NeverStaleDispatch ==
  ~uncaught => \A lag \in 1..MaxBuild : handled[lag] = 0

\* C3: however often cleanupAndExit is triggered, dockerTeardown is invoked
\* exactly once and outerResolve exactly once: never more, teardown as soon
\* as there is a trigger, outerResolve when the teardown has returned and
\* not before.
C3_CleanupOnce ==
  /\ teardownCalls <= 1
  /\ outerResolves <= 1
  /\ triggers >= 1 => teardownCalls = 1
  /\ cleaning = "running" => outerResolves = 0
  /\ cleaning = "done" => outerResolves = 1

\* Two termination signals and a startup exception have all triggered the
\* cleanup, which has finished.
C3_Witness ==
  /\ triggers >= 3
  /\ failed # "none"
  /\ cleaning = "done"

\* C4: the server module is loaded only when both compilation promises have
\* resolved; with either of them rejected it is not loaded, in any state.
C4_LoadOnlyAfterBothResolved ==
  /\ app.loaded => clientPromise = "resolved" /\ serverPromise = "resolved"
  /\ (clientPromise = "rejected" \/ serverPromise = "rejected") => ~app.loaded

\* The initial server compile failed, a later server rebuild succeeded, and
\* start() has left through its catch block.
C4_Witness ==
  /\ serverPromise = "rejected"
  /\ clientPromise = "resolved"
  /\ built >= 1
  /\ pc = "exited"

\* A startup step begins, or a patch check is started.
NewWork ==
  \/ begun' # begun
  \/ hotStatus # "check" /\ hotStatus' = "check"

\* C5: once cleanup has begun, no startup step begins and no patch check
\* is started.
C5_NoNewWorkAfterCleanup == [][cleaning # "null" => ~NewWork]_vars

C7_HotAbsentEntersCleanup == uncaught => cleaning # "null"

\* The watch callback calls checkForUpdate on a loaded module that has
\* app.hot and whose status is not 'idle'.
NoopCall ==
  /\ app.loaded /\ hotEnabled
  /\ hotStatus # "idle"
  /\ serverCompiling /\ ~serverCompiling'
  /\ built' = built + 1

\* C8: checkForUpdate called while the status is not idle requests no
\* check and changes neither the status nor the live module; at most one
\* hot.check is pending in any state.
C8_NoopWhileNotIdle ==
  [][ /\ NoopCall => chk' = chk /\ hotStatus' = hotStatus /\ app' = app
      /\ Len(chk') <= 1 ]_vars

\* A rebuild-ready notification has been dropped at the status guard while
\* the check it met is still pending.
C8_Witness ==
  /\ drain # << >> /\ Last(drain) = "noop"
  /\ chk # << >>
  /\ hotStatus \in { "check", "apply" }

\* checkForUpdate's catch has run its reload branch in this step.
ReloadStep ==
  /\ Len(drain') = Len(drain) + 1
  /\ Last(drain') = "reloaded"

\* A request is dispatched in this step to a module behind build/server.
StaleDispatch == \E lag \in 1..MaxBuild : handled'[lag] > handled[lag]

\* C9: when a check fails in status abort or fail, the module is replaced
\* by one loaded afresh from the build output and the status is idle
\* afterwards; the gate, still armed until then, is released by that step,
\* and the requests it lets through go to the fresh module.
C9_ReloadBeforeRelease ==
  [][ ReloadStep =>
        /\ app'.ver = built /\ hotStatus' = "idle"
        /\ GateArmed /\ appPromiseIsResolved'
        /\ ~StaleDispatch ]_vars

\* checkForUpdate's catch has run its warning branch in this step.
SoftFailureStep ==
  /\ Len(drain') = Len(drain) + 1
  /\ Last(drain') = "failed"

\* C10: when a check fails in a status that is neither abort nor fail, the
\* live module is unchanged, the status is idle afterwards, and the gate is
\* released: every waiting request is handled, by the existing module.
C10_SoftFailureKeepsModule ==
  [][ SoftFailureStep =>
        /\ app' = app
        /\ hotStatus' = "idle"
        /\ appPromiseIsResolved'
        /\ waiting' = << >>
        /\ handled'[built - app.ver] = handled[built - app.ver] + Len(waiting) ]_vars

\* C11: when the client's and the server's initial compile both end without
\* errors and no further server run has started, in any interleaving of the
\* two targets, the server module is loaded as soon as start() resumes
\* past both awaits, and appPromiseResolve has then been called exactly
\* once: by the load, and not by the server's initial watch callback.
InitialCompilesSucceeded ==
  /\ clientPromise = "resolved"
  /\ serverPromise = "resolved"
  /\ started = 1

C11_StartupReleaseOnce ==
  InitialCompilesSucceeded =>
    /\ app.loaded <=> pc \notin { "awaitClient", "awaitServer" }
    /\ releases = IF app.loaded THEN 1 ELSE 0
    /\ app.loaded => appPromiseIsResolved /\ gates = << TRUE >>

\* Both initial compiles succeeded, the client having recompiled meanwhile,
\* and the edge server is up.
C11_Witness ==
  /\ InitialCompilesSucceeded
  /\ pc = "launched"
  /\ releases = 1
  /\ clientCompiling

\* The log entries of checkForUpdate's handlers: one for each hot.check(true)
\* that has settled since the watch callback last called it.
NoNoop(log) == SelectSeq(log, LAMBDA e : e # "noop")

\* hot.check(true) calls since the watch callback last called it, that call
\* included: the settled ones and the pending ones.
ChecksCalled == Len(NoNoop(drain)) + Len(chk)

\* The check made by checkForUpdate(true) resolves with an empty list, the
\* watch callback's check having resolved with updated modules.
DrainScenarioStep ==
  /\ NoNoop(drain) = << "updated" >>
  /\ Len(drain') = Len(drain) + 1
  /\ Last(drain') = "nothing"

\* C12: when the check started by a rebuild-ready notification in idle
\* status yields updated modules, a nested check is pending and nothing else
\* is; when that nested check yields an empty list the engine is idle, no
\* check is pending, the handlers have logged exactly one "updated" and one
\* "nothing updated" entry, and hot.check(true) was called exactly twice.
C12_DrainScenario ==
  [][ /\ NoNoop(drain') = << "updated" >> =>
           chk' = << "nested" >> /\ ChecksCalled' = 2 /\ hotStatus' # "idle"
      /\ DrainScenarioStep =>
           /\ hotStatus' = "idle"
           /\ chk' = << >>
           /\ NoNoop(drain') = << "updated", "nothing" >>
           /\ ChecksCalled' = 2 ]_vars

\* The drain scenario has run to its end.
C12_Witness ==
  /\ NoNoop(drain) = << "updated", "nothing" >>
  /\ hotStatus = "idle"
  /\ chk = << >>
  /\ app.ver = built

\* The server compiler's compile hook fires while the gate is armed.
RearmWhileArmed == started' = started + 1 /\ ~appPromiseIsResolved

\* appPromiseResolve is called.
ReleaseStep == releases' = releases + 1

\* C13: a server compile start that arrives while the gate is armed creates
\* no gate and leaves the waiting requests where they are; every waiting
\* request, whenever it arrived, waits on the current gate; and one release
\* dispatches all of them together.
C13_RearmCoalesces ==
  [][ /\ RearmWhileArmed =>
           /\ appPromise' = appPromise
           /\ gates' = gates
           /\ ~appPromiseIsResolved'
           /\ waiting' = waiting
      /\ \A i \in DOMAIN waiting' : waiting'[i] = appPromise'
      /\ ReleaseStep =>
           /\ waiting' = << >>
           /\ Sum(handled', MaxBuild) = Sum(handled, MaxBuild) + Len(waiting) ]_vars

\* Two requests wait on the one gate, which the compile start of a later
\* server run than the one that armed it has left in place.
C13_Witness ==
  /\ Len(waiting) = 2
  /\ waiting[1] = waiting[2]
  /\ started > armedBy
  /\ serverCompiling

\* The client compiler's, the server compiler's done hook fires.
ClientDoneStep == clientCompiling /\ ~clientCompiling'
ServerDoneStep ==
  serverCompiling /\ ~serverCompiling' /\ (built' # built \/ failed' # failed
                                             \/ serverPromise' # serverPromise)

\* C14: a compilation promise is settled by the first done hook of its
\* compiler and by nothing else: resolved when that run has no errors (for
\* the server: build/server was written), rejected when it has; once
\* settled, no later compile start or done changes it.
C14_FirstOutcomeSettles ==
  [][ /\ clientPromise \in Settled => clientPromise' = clientPromise
      /\ serverPromise \in Settled => serverPromise' = serverPromise
      /\ clientPromise = "pending" =>
           (clientPromise' \in Settled <=> ClientDoneStep)
      /\ (serverPromise = "pending" /\ serverPromise' = "resolved") =>
           ServerDoneStep /\ built = 0 /\ built' = 1
      /\ (serverPromise = "pending" /\ serverPromise' = "rejected") =>
           ServerDoneStep /\ built = 0 /\ built' = 0
      /\ (serverPromise = "pending" /\ built' = 1) => serverPromise' = "resolved"
    ]_vars

\* The server's first run failed and a later one succeeded, the client's
\* first run succeeded and the client is compiling again: both promises
\* are as their first runs left them.
C14_Witness ==
  /\ serverPromise = "rejected"
  /\ built >= 1
  /\ clientPromise = "resolved"
  /\ clientCompiling

\* dockerTeardown() has returned in this step: what was up is down.
TeardownCompletes ==
  /\ cleaning = "running"
  /\ cleaning' = "done"
  /\ network = "up" => network' = "down"
  /\ db = "up" => db' = "down"

\* C15: outerResolve is called only in the step in which dockerTeardown
\* returns; a call of cleanupAndExit made while a cleanup exists starts
\* no other one; and the wait of the catch block on cleanupAndExit()
\* ends only when that teardown has returned.
C15_ShutdownOrdering ==
  [][ /\ outerResolves' # outerResolves =>
           TeardownCompletes /\ outerResolves' = outerResolves + 1
      /\ (triggers' # triggers /\ cleaning # "null") =>
           cleaning' = cleaning /\ teardownCalls' = teardownCalls
      /\ (pc' = "exited" /\ pc # "exited") =>
           cleaning' = "done" /\ outerResolves' = 1
      /\ (pc = "caught" /\ cleaning' # "done") => pc' = "caught" ]_vars

\* A termination signal and a startup exception both triggered the cleanup;
\* the database container is down and the catch block's wait is over.
C15_Witness ==
  /\ pc = "exited"
  /\ triggers >= 2
  /\ outerResolves = 1
  /\ db = "down"

\* The startup steps this run has: the network unless noDocker, the database
\* when runDatabase, and all the others.
EnabledSteps ==
  { s \in Steps : /\ s = "network" => ~noDocker
                  /\ s = "database" => runDatabase }

\* The steps that precede step s in the try block.
StepsBefore == [ s \in Steps |-> { t \in Steps : StepIndex(t) < StepIndex(s) } ]

\* Step s has completed successfully.
StepCompleted(s) ==
  CASE s = "network" -> network # "none"
    [] s = "database" -> db # "none"
    [] s = "clean" -> clientPromise # "none"
    [] s = "compilers" -> clientPromise # "none" /\ serverPromise # "none"
    [] s = "compile" -> clientPromise = "resolved" /\ serverPromise = "resolved"
    [] s = "load" -> app.loaded /\ releases >= 1 /\ gates[1]
    [] s = "edge" -> serving

\* C16: startup follows the order of start()'s try block: a step has begun
\* only if it is enabled and every enabled step before it has completed;
\* in particular browserSync's init is called only with the server module
\* loaded and the gate released, and the edge server serves only then.
C16_StartupOrder ==
  LET completed == { s \in Steps : StepCompleted(s) }
  IN  /\ begun \subseteq EnabledSteps
      /\ \A s \in begun : (StepsBefore[s] \cap EnabledSteps) \subseteq completed
      /\ completed \subseteq begun
      /\ "edge" \in begun => app.loaded /\ releases >= 1
      /\ serving => "edge" \in begun

\* A run with the network and the database enabled has gone through every
\* step and is serving.
C16_Witness ==
  /\ begun = Steps
  /\ ~noDocker
  /\ runDatabase
  /\ serving
  /\ network = "up"
  /\ db = "up"

\* The appPromises created so far that are unresolved.
UnresolvedGates == { g \in DOMAIN gates : ~gates[g] }

\* C17: an appPromise is replaced only once it is resolved: at most one of
\* the promises ever created is unresolved, it is the current one, and
\* appPromiseIsResolved tells whether the current one is resolved; every
\* suspended request waits on the current promise, so the next release
\* dispatches it and none is left behind on a replaced promise.
C17_GateNeverReplacedUnresolved ==
  /\ Cardinality(UnresolvedGates) <= 1
  /\ \A g \in UnresolvedGates : g = appPromise
  /\ appPromise = Len(gates)
  /\ appPromise > 0 => (gates[appPromise] <=> appPromiseIsResolved)
  /\ \A i \in DOMAIN waiting : waiting[i] \in UnresolvedGates

\* The third appPromise replaced two resolved ones, and a request waits on
\* it.
C17_Witness ==
  /\ Len(gates) = 3
  /\ gates[1] /\ gates[2] /\ ~gates[3]
  /\ waiting # << >>

\* Requests are suspended on the gate and a server compiler run has ended
\* without errors since the gate was armed.
WaitingAfterRebuild == waiting # << >> /\ builtSinceArm

\* C18: when the compilers' runs end and the checks of the patch engine
\* settle, requests suspended on the gate are dispatched once a server run
\* has ended without errors, and an engine that has left idle comes back to
\* idle.
C18_GateLiveness ==
  /\ WaitingAfterRebuild ~> (waiting = << >>)
  /\ (hotStatus # "idle") ~> (hotStatus = "idle")

\* C19: once outerResolve has been called, no docker network and no
\* database container that start() created is still up, whether it was
\* created before or after the termination signal, and dockerTeardown was
\* called exactly once.
C19_ResourcesReleased ==
  outerResolves >= 1 =>
    /\ network # "up"
    /\ db # "up"
    /\ teardownCalls = 1

\* start()'s catch block is entered in this step.
CatchStep == pc \notin { "caught", "exited" } /\ pc' \in { "caught", "exited" }

\* A termination signal is delivered in this step: cleanupAndExit is
\* called and nothing else happens.
SignalStep ==
  /\ triggers' = triggers + 1
  /\ UNCHANGED << cfgVars, pc, begun, failed, resVars, clientVars, serverVars,
                  gateVars, hmrVars, serving, reqVars >>

\* C20: outerResolve is called only by the cleanup, and the cleanup is
\* started only by a termination signal or by start()'s catch block: as
\* long as neither has happened the outer promise is unresolved, whatever
\* rebuilds, checks, reloads and requests there were.
C20_UnresolvedWithoutTrigger ==
  [][ /\ triggers' = 0 => outerResolves' = 0 /\ cleaning' = "null"
      /\ triggers' # triggers => SignalStep \/ (CatchStep /\ failed' # "none")
      /\ (~SignalStep /\ ~CatchStep) => UNCHANGED << triggers, teardownCalls >>
      /\ outerResolves' # outerResolves => triggers >= 1 ]_vars

\* The server is launched, a rebuild's update failed and the module was
\* reloaded, requests were handled, and no signal or exception occurred:
\* the outer promise is unresolved.
C20_Witness ==
  /\ serving
  /\ triggers = 0
  /\ failed = "none"
  /\ outerResolves = 0
  /\ drain # << >>
  /\ Last(drain) = "reloaded"
  /\ Sum(handled, MaxBuild) >= 1
  /\ started = MaxBuild

====
